---- MODULE Spec2Model ----
(***************************************************************************)
(* Model of internal/upload/pulp/pulp.go: a client wrapper around the Pulp *)
(* repository service.  Every public method of Client issues one remote    *)
(* call through the generated pulpclient and maps the outcome to a value   *)
(* and an error.  The remote service itself is not part of the repository; *)
(* it is modelled as the environment the wrapper talks to.                 *)
(***************************************************************************)
EXTENDS Integers, Sequences, FiniteSets, TLC

VARIABLES
    ctx,        \* Client.ctx: server index and optional basic-auth metadata
    repos,      \* remote service: repository name -> pulp href
    artifacts,  \* remote service: uploaded file -> pulp href of its artifact
    dists,      \* remote service: names of the distributions created
    tasks,      \* remote service: tasks[i] is the state of the i-th task
    openFiles,  \* client process: file handles currently open
    call,       \* the most recent invocation: method name and arguments
    wire,       \* the requests that invocation issued, in order
    resp,       \* the response the pulpclient handed back to it
    ret,        \* what the method returned: [val, err]
    created     \* caller's record: name -> href returned by a successful create

vars == <<ctx, repos, artifacts, dists, tasks, openFiles,
          call, wire, resp, ret, created>>

srvVars == <<repos, artifacts, dists, tasks>>

(***************************************************************************)
(* Bounds of the model.                                                    *)
(***************************************************************************)
MaxTasks == 2

(***************************************************************************)
(* Inputs.                                                                 *)
(***************************************************************************)
Names == {"fedora-40", "rhel-9"}
Descriptions == {"", "edge commits"}
ExistingFiles == {"commit.tar"}
Paths == {"commit.tar", "missing.tar"}
BasePaths == {"ostree/fedora-40"}
DistNames == {"fedora-40"}

RepoHref(i) == "/pulp/api/v3/repositories/ostree/ostree/" \o ToString(i) \o "/"
ArtifactHref(i) == "/pulp/api/v3/artifacts/" \o ToString(i) \o "/"
TaskHref(i) == "/pulp/api/v3/tasks/" \o ToString(i) \o "/"

RepoHrefs == {RepoHref(i) : i \in 1..Cardinality(Names)}
ArtifactHrefs == {ArtifactHref(i) : i \in 1..Cardinality(ExistingFiles)}
TaskHrefs == {TaskHref(i) : i \in 1..MaxTasks}

(***************************************************************************)
(* type TaskState string and its constants.                                *)
(***************************************************************************)
TASK_WAITING == "waiting"
TASK_SKIPPED == "skipped"
TASK_RUNNING == "running"
TASK_COMPLETED == "completed"
TASK_FAILED == "failed"
TASK_CANCELED == "canceled"
TASK_CANCELING == "canceling"

TaskStates == {TASK_WAITING, TASK_SKIPPED, TASK_RUNNING, TASK_COMPLETED,
               TASK_FAILED, TASK_CANCELED, TASK_CANCELING}

\* A state string a newer service could send that the wrapper does not know.
UnknownState == "paused"

(***************************************************************************)
(* Errors.  nil is NoError; the others are the values the wrapper builds   *)
(* with fmt.Errorf or passes on from os.Open.                              *)
(***************************************************************************)
NoError == [kind |-> "nil", msg |-> "", cause |-> "", body |-> ""]

IOError(path) == [kind |-> "IOError", msg |-> "open", cause |-> path, body |-> ""]

\* A nil *http.Response, and one carrying a body.
NilHTTP == [isNil |-> TRUE, body |-> "", readErr |-> FALSE]
HTTP(body, readErr) == [isNil |-> FALSE, body |-> body, readErr |-> readErr]

readBody(r) ==
    IF r.isNil THEN ""
    ELSE IF r.readErr THEN ""
    ELSE r.body

RemoteError(msg, rsp) ==
    [kind |-> "RemoteError", msg |-> msg, cause |-> rsp.err, body |-> readBody(rsp.http)]

EmptyStateError == [kind |-> "EmptyStateError", msg |-> "got empty task state",
                    cause |-> "", body |-> ""]

(***************************************************************************)
(* Responses of Execute(): (result, *http.Response, error).                *)
(***************************************************************************)
NoResult == [none |-> TRUE]
NoResponse == [err |-> "", http |-> NilHTTP, result |-> NoResult]

Success(result) == [err |-> "", http |-> HTTP("", FALSE), result |-> result]

\* Failures any request can meet: no connection, a rejection with a readable
\* body, a rejection whose body cannot be read.
Failures ==
    { [err |-> "connection refused", http |-> NilHTTP, result |-> NoResult],
      [err |-> "400 Bad Request", http |-> HTTP("denied", FALSE), result |-> NoResult],
      [err |-> "502 Bad Gateway", http |-> HTTP("", TRUE), result |-> NoResult] }

Failed(rsp) == rsp.err # ""

(***************************************************************************)
(* NewClient: the context binds server 0 and, with credentials, basic auth *)
(***************************************************************************)
NoCredentials == [isNil |-> TRUE, Username |-> "", Password |-> ""]
SomeCredentials == [isNil |-> FALSE, Username |-> "admin", Password |-> "secret"]

NewClient(url, creds) ==
    [url |-> url,
     ContextServerIndex |-> 0,
     hasBasicAuth |-> ~creds.isNil,
     UserName |-> IF creds.isNil THEN "" ELSE creds.Username,
     Password |-> IF creds.isNil THEN "" ELSE creds.Password]

(***************************************************************************)
(* The requests the wrapper builds.                                        *)
(***************************************************************************)
ArtifactsCreateReq(path) == [api |-> "ArtifactsCreate", file |-> path]

ListReq == [api |-> "RepositoriesOstreeOstreeList"]

\* pulpclient.NullableString: the zero value is unset, NewNullableString sets it.
ZeroNullableString == [isSet |-> FALSE, value |-> ""]
NewNullableString(v) == [isSet |-> TRUE, value |-> v]

\* The pulpclient.OstreeOstreeRepository the method fills in: Description
\* keeps its zero value unless the description is non-empty.
\* Mutant: the description is always set, also when it is empty.
OstreeOstreeRepository_AlwaysSet(name, description) ==
    [Name |-> name, Description |-> NewNullableString(description)]

OstreeOstreeRepository(name, description) ==
    IF description # ""
    THEN [Name |-> name, Description |-> NewNullableString(description)]
    ELSE [Name |-> name, Description |-> ZeroNullableString]

CreateReq(name, description) ==
    [api |-> "RepositoriesOstreeOstreeCreate",
     body |-> OstreeOstreeRepository(name, description)]

\* Mutant: the archive root is taken from the caller's arguments.
ImportReq_NameFromCaller(commitHref, repoHref) ==
    [api |-> "RepositoriesOstreeOstreeImportAll",
     ostree_ostree_repository_href |-> repoHref,
     body |-> [artifact |-> commitHref, repository_name |-> repoHref]]

ImportReq(commitHref, repoHref) ==
    [api |-> "RepositoriesOstreeOstreeImportAll",
     ostree_ostree_repository_href |-> repoHref,
     body |-> [artifact |-> commitHref, repository_name |-> "repo"]]

DistributeReq(basePath, name, repoHref) ==
    [api |-> "DistributionsOstreeOstreeCreate",
     body |-> [base_path |-> basePath, name |-> name, repository |-> repoHref]]

TasksReadReq(task) == [api |-> "TasksRead", task_href |-> task]

(***************************************************************************)
(* The methods of Client, as functions of their arguments and of what      *)
(* Execute() handed back: the requests issued, the value and error         *)
(* returned, the messages logged and the file handles left open.           *)
(***************************************************************************)
Outcome(w, v, e) == [wire |-> w, val |-> v, err |-> e, log |-> <<>>, fds |-> 0]

\* Mutant: no deferred Close; the file is closed on the success path only.
UploadFile_NoDefer(path, rsp) ==
    IF path \notin ExistingFiles
    THEN Outcome(<<>>, "", IOError(path))
    ELSE IF Failed(rsp)
         THEN [Outcome(<<ArtifactsCreateReq(path)>>, "",
                       RemoteError("failed to upload file", rsp)) EXCEPT !.fds = 1]
         ELSE Outcome(<<ArtifactsCreateReq(path)>>, rsp.result.pulp_href, NoError)

UploadFile(path, rsp) ==
    IF path \notin ExistingFiles
    THEN Outcome(<<>>, "", IOError(path))
    ELSE LET opened == 1
             deferredClose == 1
             out == IF Failed(rsp)
                    THEN Outcome(<<ArtifactsCreateReq(path)>>, "",
                                 RemoteError("failed to upload file", rsp))
                    ELSE Outcome(<<ArtifactsCreateReq(path)>>, rsp.result.pulp_href, NoError)
         IN  [out EXCEPT !.fds = opened - deferredClose]

Range(f) == {f[x] : x \in DOMAIN f}

EmptyMap == [n \in {} |-> ""]
NilMap == [isNil |-> TRUE, m |-> EmptyMap]

RECURSIVE RangeResults(_, _, _)
RangeResults(results, i, acc) ==
    IF i > Len(results)
    THEN acc
    ELSE RangeResults(results, i + 1, (results[i].name :> results[i].pulp_href) @@ acc)

\* Mutant: the map is keyed by href and holds the names.
ListOSTreeRepositories_Inverted(rsp) ==
    IF Failed(rsp)
    THEN Outcome(<<ListReq>>, NilMap,
                 RemoteError("repository list request returned an error", rsp))
    ELSE Outcome(<<ListReq>>,
                 [isNil |-> FALSE,
                  m |-> [h \in {r.pulp_href : r \in Range(rsp.result.results)} |->
                            (CHOOSE r \in Range(rsp.result.results) : r.pulp_href = h).name]],
                 NoError)

\* Mutant: the loop starts at the second result.
ListOSTreeRepositories_SkipsFirst(rsp) ==
    IF Failed(rsp)
    THEN Outcome(<<ListReq>>, NilMap,
                 RemoteError("repository list request returned an error", rsp))
    ELSE Outcome(<<ListReq>>,
                 [isNil |-> FALSE, m |-> RangeResults(rsp.result.results, 2, EmptyMap)],
                 NoError)

ListOSTreeRepositories(rsp) ==
    IF Failed(rsp)
    THEN Outcome(<<ListReq>>, NilMap,
                 RemoteError("repository list request returned an error", rsp))
    ELSE Outcome(<<ListReq>>,
                 [isNil |-> FALSE, m |-> RangeResults(rsp.result.results, 1, EmptyMap)],
                 NoError)

CreateOSTreeRepository(name, description, rsp) ==
    IF Failed(rsp)
    THEN Outcome(<<CreateReq(name, description)>>, "",
                 RemoteError("repository creation failed", rsp))
    ELSE Outcome(<<CreateReq(name, description)>>, rsp.result.pulp_href, NoError)

ImportCommit(commitHref, repoHref, rsp) ==
    IF Failed(rsp)
    THEN Outcome(<<ImportReq(commitHref, repoHref)>>, "",
                 RemoteError("ostree commit import failed", rsp))
    ELSE Outcome(<<ImportReq(commitHref, repoHref)>>, rsp.result.task, NoError)

\* Mutant: a failed request is sent a second time.
DistributeOSTreeRepo_Retries(basePath, name, repoHref, rsp) ==
    IF Failed(rsp)
    THEN Outcome(<<DistributeReq(basePath, name, repoHref),
                   DistributeReq(basePath, name, repoHref)>>, "",
                 RemoteError("error distributing ostree repository", rsp))
    ELSE Outcome(<<DistributeReq(basePath, name, repoHref)>>, rsp.result.task, NoError)

DistributeOSTreeRepo(basePath, name, repoHref, rsp) ==
    IF Failed(rsp)
    THEN Outcome(<<DistributeReq(basePath, name, repoHref)>>, "",
                 RemoteError("error distributing ostree repository", rsp))
    ELSE Outcome(<<DistributeReq(basePath, name, repoHref)>>, rsp.result.task, NoError)

\* Mutant: the empty state is not checked.
TaskState_NoEmptyCheck(task, rsp) ==
    IF Failed(rsp)
    THEN Outcome(<<TasksReadReq(task)>>, "", RemoteError("error reading task", rsp))
    ELSE Outcome(<<TasksReadReq(task)>>, rsp.result.state, NoError)

\* Mutant: a state outside the seven constants is refused like the empty one.
TaskState_RejectsUnknown(task, rsp) ==
    IF Failed(rsp)
    THEN Outcome(<<TasksReadReq(task)>>, "", RemoteError("error reading task", rsp))
    ELSE IF rsp.result.state \notin TaskStates
         THEN Outcome(<<TasksReadReq(task)>>, "", EmptyStateError)
         ELSE Outcome(<<TasksReadReq(task)>>, rsp.result.state, NoError)

TaskState(task, rsp) ==
    IF Failed(rsp)
    THEN Outcome(<<TasksReadReq(task)>>, "", RemoteError("error reading task", rsp))
    ELSE LET state == rsp.result.state
         IN  IF state = ""
             THEN Outcome(<<TasksReadReq(task)>>, "", EmptyStateError)
             ELSE Outcome(<<TasksReadReq(task)>>, state, NoError)

\* Mutant: only the running state counts, as the method's comment reads.
TaskWaitingOrRunning_RunningOnly(task, rsp) ==
    LET r == TaskState(task, rsp)
    IN  IF r.err # NoError
        THEN [Outcome(r.wire, FALSE, NoError) EXCEPT !.log = <<r.err.kind>>]
        ELSE Outcome(r.wire, r.val = TASK_RUNNING, NoError)

\* Mutant: a failed query is reported as still in progress.
TaskWaitingOrRunning_TrueOnError(task, rsp) ==
    LET r == TaskState(task, rsp)
    IN  IF r.err # NoError
        THEN [Outcome(r.wire, TRUE, NoError) EXCEPT !.log = <<r.err.kind>>]
        ELSE Outcome(r.wire, r.val = TASK_RUNNING \/ r.val = TASK_WAITING, NoError)

TaskWaitingOrRunning(task, rsp) ==
    LET r == TaskState(task, rsp)
    IN  IF r.err # NoError
        THEN [Outcome(r.wire, FALSE, NoError) EXCEPT !.log = <<r.err.kind>>]
        ELSE Outcome(r.wire, r.val = TASK_RUNNING \/ r.val = TASK_WAITING, NoError)

(***************************************************************************)
(* The remote service.  It assigns hrefs, keeps repository names,          *)
(* distribution names and artifact contents unique, and runs import and    *)
(* distribute as tasks.                                                    *)
(***************************************************************************)
Perms(S) ==
    {p \in [1..Cardinality(S) -> S] : \A i, j \in DOMAIN p : p[i] = p[j] => i = j}

RepoRecords == {[name |-> n, pulp_href |-> repos[n]] : n \in DOMAIN repos}

TaskIndex(href) ==
    IF \E i \in 1..Len(tasks) : TaskHref(i) = href
    THEN CHOOSE i \in 1..Len(tasks) : TaskHref(i) = href
    ELSE 0

\* The successful responses the service can give to a request in its
\* current state; a request it cannot serve has none and meets a failure.
Accepts(req) ==
    CASE req.api = "ArtifactsCreate" ->
           IF req.file \notin DOMAIN artifacts
           THEN {Success([pulp_href |-> ArtifactHref(Cardinality(DOMAIN artifacts) + 1)])}
           ELSE {}
      [] req.api = "RepositoriesOstreeOstreeList" ->
           {Success([count |-> Cardinality(RepoRecords), results |-> p]) :
                p \in Perms(RepoRecords)}
      [] req.api = "RepositoriesOstreeOstreeCreate" ->
           IF req.body.Name \notin DOMAIN repos
           THEN {Success([pulp_href |-> RepoHref(Cardinality(DOMAIN repos) + 1)])}
           ELSE {}
      [] req.api = "RepositoriesOstreeOstreeImportAll" ->
           IF /\ req.ostree_ostree_repository_href \in Range(repos)
              /\ req.body.artifact \in Range(artifacts)
              /\ req.body.repository_name = "repo"
              /\ Len(tasks) < MaxTasks
           THEN {Success([task |-> TaskHref(Len(tasks) + 1)])}
           ELSE {}
      [] req.api = "DistributionsOstreeOstreeCreate" ->
           IF /\ req.body.repository \in Range(repos)
              /\ req.body.name \notin dists
              /\ Len(tasks) < MaxTasks
           THEN {Success([task |-> TaskHref(Len(tasks) + 1)])}
           ELSE {}
      [] req.api = "TasksRead" ->
           IF TaskIndex(req.task_href) # 0
           THEN {Success([state |-> s]) :
                    s \in {tasks[TaskIndex(req.task_href)], "", UnknownState}}
           ELSE {}

ResponsesFor(req) == Failures \cup Accepts(req)

\* What serving a request does to the service.
Serve(req, rsp) ==
    IF Failed(rsp)
    THEN UNCHANGED srvVars
    ELSE CASE req.api = "ArtifactsCreate" ->
                /\ artifacts' = (req.file :> rsp.result.pulp_href) @@ artifacts
                /\ UNCHANGED <<repos, dists, tasks>>
           [] req.api = "RepositoriesOstreeOstreeCreate" ->
                /\ repos' = (req.body.Name :> rsp.result.pulp_href) @@ repos
                /\ UNCHANGED <<artifacts, dists, tasks>>
           [] req.api = "RepositoriesOstreeOstreeImportAll" ->
                /\ tasks' = Append(tasks, TASK_WAITING)
                /\ UNCHANGED <<repos, artifacts, dists>>
           [] req.api = "DistributionsOstreeOstreeCreate" ->
                /\ tasks' = Append(tasks, TASK_WAITING)
                /\ dists' = dists \cup {req.body.name}
                /\ UNCHANGED <<repos, artifacts>>
           [] OTHER -> UNCHANGED srvVars

\* waiting -> running -> {completed | failed | canceled}, canceling before
\* canceled, skipped directly from waiting.
TaskSuccessors(s) ==
    CASE s = TASK_WAITING -> {TASK_RUNNING, TASK_SKIPPED}
      [] s = TASK_RUNNING -> {TASK_COMPLETED, TASK_FAILED, TASK_CANCELING, TASK_CANCELED}
      [] s = TASK_CANCELING -> {TASK_CANCELED}
      [] OTHER -> {}

TaskAdvance(i) ==
    /\ i \in 1..Len(tasks)
    /\ \E s \in TaskSuccessors(tasks[i]) : tasks' = [tasks EXCEPT ![i] = s]
    /\ UNCHANGED <<ctx, repos, artifacts, dists, openFiles,
                   call, wire, resp, ret, created>>

(***************************************************************************)
(* One invocation of a method: the requests go out, the service serves the *)
(* first of them, the method returns.                                      *)
(***************************************************************************)
Invoke(op, args, out, rsp) ==
    /\ call' = [op |-> op, args |-> args]
    /\ wire' = out.wire
    /\ resp' = rsp
    /\ ret' = [val |-> out.val, err |-> out.err, log |-> out.log]
    /\ openFiles' = openFiles + out.fds
    /\ IF out.wire = <<>> THEN UNCHANGED srvVars ELSE Serve(out.wire[1], rsp)
    /\ UNCHANGED ctx

InvokeUploadFile(path) ==
    /\ IF path \in ExistingFiles
       THEN \E rsp \in ResponsesFor(ArtifactsCreateReq(path)) :
                Invoke("UploadFile", <<path>>, UploadFile(path, rsp), rsp)
       ELSE Invoke("UploadFile", <<path>>, UploadFile(path, NoResponse), NoResponse)
    /\ UNCHANGED created

InvokeListOSTreeRepositories ==
    /\ \E rsp \in ResponsesFor(ListReq) :
           Invoke("ListOSTreeRepositories", <<>>, ListOSTreeRepositories(rsp), rsp)
    /\ UNCHANGED created

InvokeCreateOSTreeRepository(name, description) ==
    \E rsp \in ResponsesFor(CreateReq(name, description)) :
        LET out == CreateOSTreeRepository(name, description, rsp)
        IN  /\ Invoke("CreateOSTreeRepository", <<name, description>>, out, rsp)
            /\ created' = IF out.err = NoError THEN (name :> out.val) @@ created
                          ELSE created

InvokeImportCommit(commitHref, repoHref) ==
    /\ \E rsp \in ResponsesFor(ImportReq(commitHref, repoHref)) :
           Invoke("ImportCommit", <<commitHref, repoHref>>,
                  ImportCommit(commitHref, repoHref, rsp), rsp)
    /\ UNCHANGED created

InvokeDistributeOSTreeRepo(basePath, name, repoHref) ==
    /\ \E rsp \in ResponsesFor(DistributeReq(basePath, name, repoHref)) :
           Invoke("DistributeOSTreeRepo", <<basePath, name, repoHref>>,
                  DistributeOSTreeRepo(basePath, name, repoHref, rsp), rsp)
    /\ UNCHANGED created

InvokeTaskState(task) ==
    /\ \E rsp \in ResponsesFor(TasksReadReq(task)) :
           Invoke("TaskState", <<task>>, TaskState(task, rsp), rsp)
    /\ UNCHANGED created

InvokeTaskWaitingOrRunning(task) ==
    /\ \E rsp \in ResponsesFor(TasksReadReq(task)) :
           Invoke("TaskWaitingOrRunning", <<task>>, TaskWaitingOrRunning(task, rsp), rsp)
    /\ UNCHANGED created

Init ==
    /\ ctx = NewClient("https://pulp.example.com", SomeCredentials)
    /\ repos = EmptyMap
    /\ artifacts = EmptyMap
    /\ dists = {}
    /\ tasks = <<>>
    /\ openFiles = 0
    /\ call = [op |-> "NewClient", args |-> <<>>]
    /\ wire = <<>>
    /\ resp = NoResponse
    /\ ret = [val |-> "", err |-> NoError, log |-> <<>>]
    /\ created = EmptyMap

Next ==
    \/ \E path \in Paths : InvokeUploadFile(path)
    \/ InvokeListOSTreeRepositories
    \/ \E name \in Names, description \in Descriptions :
           InvokeCreateOSTreeRepository(name, description)
    \/ \E commitHref \in ArtifactHrefs, repoHref \in RepoHrefs :
           InvokeImportCommit(commitHref, repoHref)
    \/ \E basePath \in BasePaths, name \in DistNames, repoHref \in RepoHrefs :
           InvokeDistributeOSTreeRepo(basePath, name, repoHref)
    \/ \E task \in TaskHrefs : InvokeTaskState(task)
    \/ \E task \in TaskHrefs : InvokeTaskWaitingOrRunning(task)
    \/ \E i \in 1..MaxTasks : TaskAdvance(i)

Spec == Init /\ [][Next]_vars

(***************************************************************************)
(* Properties.                                                             *)
(***************************************************************************)
KnownStates == {"waiting", "skipped", "running", "completed", "failed",
                "canceled", "canceling"}

RemoteFailure == ret.err.kind = "RemoteError"

C2_TaskStateMapping ==
    /\ Cardinality({TASK_WAITING, TASK_SKIPPED, TASK_RUNNING, TASK_COMPLETED,
                    TASK_FAILED, TASK_CANCELED, TASK_CANCELING}) = 7
    /\ call.op = "TaskState" =>
        /\ Failed(resp) => ret.val = "" /\ RemoteFailure
        /\ ~Failed(resp) /\ resp.result.state = "" =>
               ret.val = "" /\ ret.err.kind = "EmptyStateError"
        /\ \A p \in {<<"waiting", TASK_WAITING>>, <<"skipped", TASK_SKIPPED>>,
                     <<"running", TASK_RUNNING>>, <<"completed", TASK_COMPLETED>>,
                     <<"failed", TASK_FAILED>>, <<"canceled", TASK_CANCELED>>,
                     <<"canceling", TASK_CANCELING>>} :
               ~Failed(resp) /\ resp.result.state = p[1] =>
                   ret.val = p[2] /\ ret.val = p[1] /\ ret.err = NoError

C2_Witness ==
    /\ call.op = "TaskState"
    /\ ~Failed(resp)
    /\ resp.result.state = "canceling"
    /\ ret.val = TASK_CANCELING
    /\ ret.err = NoError

\* C3 as stated: TaskState fails with EmptyStateError on every state string
\* outside the fixed set, so every value it returns without error is in the set.
C3_Original ==
    call.op = "TaskState" =>
        /\ ~Failed(resp) /\ resp.result.state \notin KnownStates =>
               ret.err.kind = "EmptyStateError"
        /\ ret.err = NoError => ret.val \in KnownStates

\* C3 amended: TaskState fails with EmptyStateError exactly when a successful
\* read carries the empty string; every other string, known or not, is
\* returned unchanged with no error, so a value returned without error is
\* non-empty and is in the fixed set whenever the service's string is.
C3_EmptyOnly ==
    call.op = "TaskState" /\ ~Failed(resp) =>
        /\ (ret.err.kind = "EmptyStateError") = (resp.result.state = "")
        /\ resp.result.state # "" =>
               ret.err = NoError /\ ret.val = resp.result.state /\ ret.val # ""
        /\ resp.result.state \in KnownStates => ret.val \in KnownStates

C3_Witness ==
    /\ call.op = "TaskState"
    /\ ~Failed(resp)
    /\ resp.result.state \notin KnownStates \cup {""}
    /\ ret.err = NoError
    /\ ret.val = resp.result.state

\* A successful listing holds every name the caller created, mapped to the
\* href CreateOSTreeRepository returned for it.
C4_ListingInv ==
    call.op = "ListOSTreeRepositories" /\ ret.err = NoError =>
        \A n \in DOMAIN created :
            n \in DOMAIN ret.val.m /\ ret.val.m[n] = created[n]

\* Uploading, importing, distributing and polling leave the listing alone.
C4_ListingStep ==
    call'.op \in {"UploadFile", "ImportCommit", "DistributeOSTreeRepo",
                  "TaskState", "TaskWaitingOrRunning"} => repos' = repos

\* C4: once CreateOSTreeRepository has returned href h for a name, every
\* later successful listing holds that name mapped to h, and uploading,
\* importing, distributing and polling leave the service's listing as it is.
C4_CreatedIsListed == [](C4_ListingInv) /\ [][C4_ListingStep]_vars

\* The end of the scenario: created with credentials, uploaded, imported and
\* distributed, both tasks out of waiting/running, and the listing read.
C4_Witness ==
    /\ ctx.hasBasicAuth
    /\ call.op = "ListOSTreeRepositories"
    /\ ret.err = NoError
    /\ "fedora-40" \in DOMAIN created
    /\ ret.val.m["fedora-40"] = created["fedora-40"]
    /\ "commit.tar" \in DOMAIN artifacts
    /\ "fedora-40" \in dists
    /\ Len(tasks) = 2
    /\ \A i \in 1..2 : tasks[i] \notin {"waiting", "running"}

\* C5: a successful list response with N results of pairwise distinct names
\* gives a map of exactly N entries, keyed by the names, each name mapped to
\* its href; a failed list request gives no map and a RemoteError.
C5_ListLossless ==
    call.op = "ListOSTreeRepositories" =>
        IF Failed(resp)
        THEN ret.val.isNil /\ RemoteFailure
        ELSE LET results == resp.result.results
                 N == Len(results)
             IN  (\A i, j \in 1..N : results[i].name = results[j].name => i = j) =>
                     /\ ~ret.val.isNil
                     /\ ret.err = NoError
                     /\ Cardinality(DOMAIN ret.val.m) = N
                     /\ N = resp.result.count
                     /\ DOMAIN ret.val.m = {results[i].name : i \in 1..N}
                     /\ \A i \in 1..N : ret.val.m[results[i].name] = results[i].pulp_href

C5_Witness ==
    /\ call.op = "ListOSTreeRepositories"
    /\ ~Failed(resp)
    /\ Len(resp.result.results) = 2
    /\ resp.result.results[1].name = "rhel-9"
    /\ Cardinality(DOMAIN ret.val.m) = 2

Methods == {"UploadFile", "ListOSTreeRepositories", "CreateOSTreeRepository",
            "ImportCommit", "DistributeOSTreeRepo", "TaskState",
            "TaskWaitingOrRunning"}

\* C6: an invocation issues at most one request; after a failed request it
\* returns the failure value without a second request, and after a
\* successful one it returns the one result.
C6_SingleCall ==
    call.op \in Methods =>
        /\ Len(wire) <= 1
        /\ Len(wire) = 1 \/ (call.op = "UploadFile" /\ ret.err.kind = "IOError")
        /\ Len(wire) = 1 /\ Failed(resp) =>
               CASE call.op = "TaskWaitingOrRunning" -> ret.val = FALSE /\ ret.err = NoError
                 [] call.op = "ListOSTreeRepositories" -> ret.val.isNil /\ RemoteFailure
                 [] OTHER -> ret.val = "" /\ RemoteFailure
        /\ Len(wire) = 1 /\ ~Failed(resp) /\ call.op \notin {"TaskState", "TaskWaitingOrRunning"} =>
               ret.err = NoError

C6_Witness ==
    /\ call.op = "DistributeOSTreeRepo"
    /\ Failed(resp)
    /\ Len(wire) = 1
    /\ ret.val = ""
    /\ RemoteFailure

\* C7: UploadFile returns an IOError and the empty href, with no request
\* sent, when the file cannot be opened; the service's non-empty href on a
\* successful upload; a RemoteError and the empty href on a rejected one; and
\* no file handle is open once it has returned.
C7_UploadFile ==
    /\ openFiles = 0
    /\ call.op = "UploadFile" =>
        LET path == call.args[1]
        IN  /\ path \notin ExistingFiles =>
                   wire = <<>> /\ ret.val = "" /\ ret.err.kind = "IOError"
            /\ path \in ExistingFiles /\ ~Failed(resp) =>
                   /\ wire = <<[api |-> "ArtifactsCreate", file |-> path]>>
                   /\ ret.val = resp.result.pulp_href
                   /\ ret.val # ""
                   /\ ret.err = NoError
            /\ path \in ExistingFiles /\ Failed(resp) =>
                   ret.val = "" /\ RemoteFailure

C7_Witness ==
    /\ call.op = "UploadFile"
    /\ call.args[1] \in ExistingFiles
    /\ Failed(resp)
    /\ RemoteFailure
    /\ openFiles = 0

\* C8: the create request carries the name, and a description exactly when
\* the description is non-empty; with the empty description the request is
\* the one of a repository whose description was never set; the href
\* returned is the one the service assigned.
C8_CreateRequest ==
    call.op = "CreateOSTreeRepository" =>
        LET name == call.args[1]
            description == call.args[2]
        IN  /\ Len(wire) = 1
            /\ wire[1].api = "RepositoriesOstreeOstreeCreate"
            /\ wire[1].body.Name = name
            /\ wire[1].body.Description.isSet = (description # "")
            /\ description # "" => wire[1].body.Description.value = description
            /\ description = "" =>
                   wire[1].body = [Name |-> name,
                                   Description |-> [isSet |-> FALSE, value |-> ""]]
            /\ ~Failed(resp) => ret.val = resp.result.pulp_href /\ ret.err = NoError

C8_Witness ==
    /\ call.op = "CreateOSTreeRepository"
    /\ call.args[2] = ""
    /\ ~Failed(resp)
    /\ ~wire[1].body.Description.isSet
    /\ ret.val = resp.result.pulp_href

\* C9: the import request targets repoHref, carries commitHref as artifact
\* and always "repo" as archive root; on success the task href of the
\* response is returned, on failure the empty string and a RemoteError.
C9_ImportRequest ==
    call.op = "ImportCommit" =>
        LET commitHref == call.args[1]
            repoHref == call.args[2]
        IN  /\ Len(wire) = 1
            /\ wire[1].api = "RepositoriesOstreeOstreeImportAll"
            /\ wire[1].ostree_ostree_repository_href = repoHref
            /\ wire[1].body.artifact = commitHref
            /\ wire[1].body.repository_name = "repo"
            /\ ~Failed(resp) => ret.val = resp.result.task /\ ret.err = NoError
            /\ Failed(resp) => ret.val = "" /\ RemoteFailure

\* The import has returned its task href while the task has not started.
C9_Witness ==
    /\ call.op = "ImportCommit"
    /\ ~Failed(resp)
    /\ ret.val = resp.result.task
    /\ TaskIndex(ret.val) # 0
    /\ tasks[TaskIndex(ret.val)] = "waiting"

\* C10: when the state query fails, or the state is empty, the caller of
\* TaskWaitingOrRunning sees exactly what it sees for a finished task: false
\* and no error.  So a poll loop can end while the task is in progress.
C10_FailureLooksFinished ==
    call.op = "TaskWaitingOrRunning" =>
        LET seen == [val |-> ret.val, err |-> ret.err]
            finished == [val |-> FALSE, err |-> NoError]
        IN  /\ Failed(resp) => seen = finished
            /\ ~Failed(resp) /\ resp.result.state = "" => seen = finished
            /\ ~Failed(resp) /\ resp.result.state \in
                   {"skipped", "completed", "failed", "canceled"} => seen = finished

\* The poll returned false while the task polled is waiting or running.
C10_Witness ==
    /\ call.op = "TaskWaitingOrRunning"
    /\ ret.val = FALSE
    /\ TaskIndex(call.args[1]) # 0
    /\ tasks[TaskIndex(call.args[1])] \in {"waiting", "running"}

====
